---- MODULE Spec2Model ----
(***************************************************************************)
(* hs_encode (src/enc.c): combined delta encoding and signing.  One run of *)
(* hs_encode is a behaviour: pc is the position in hs_encode, the other    *)
(* variables are its locals, the two streams it reads and the sink it      *)
(* writes.                                                                 *)
(***************************************************************************)
EXTENDS Integers, Sequences, FiniteSets, TLC

(* ------------------------------ bounds -------------------------------- *)
MaxNewLen == 4

MaxOldLen == 3

MaxBlockLen == 2

\* byte values the two files are drawn from
Bytes == {0, 255}

\* block length of the long-block inputs of the checksum specification
LongBlock == 230

(* ------------------------- program constants -------------------------- *)
CHAR_OFFSET == 31

SUM_LENGTH == 16

HS_SIG_MAGIC == "HS_SIG_MAGIC"

HS_LT_MAGIC == "HS_LT_MAGIC"

\* any signature magic other than HS_SIG_MAGIC
OTHER_MAGIC == "OTHER_MAGIC"

\* width of a netlong on the wire
NETLONG == 4

\* 2^16: a uint32_t is held as its two 16-bit halves, [hi, lo]
U16 == 65536

(* ----------------------------- helpers -------------------------------- *)
MIN(a, b) == IF a < b THEN a ELSE b

SeqsUpTo(S, n) == UNION {[1..k -> S] : k \in 0..n}

\* bytes [from, from+len) of s (0-based from), as the C code addresses them
Slice(s, from, len) == [i \in 1..len |-> s[from + i]]

Last(s) == s[Len(s)]

\* uint32_t arithmetic, wrapping at 2^32; k is an int, negative to subtract
U32(hi, lo) == [hi |-> hi, lo |-> lo]

AddInt32(a, k) == U32((a.hi + ((a.lo + k) \div U16)) % U16, (a.lo + k) % U16)

Add32(a, b) == U32((a.hi + b.hi + ((a.lo + b.lo) \div U16)) % U16, (a.lo + b.lo) % U16)

\* a << 16, a >> 16, a & 0xFFFF
Shl16(a) == U32(a.lo, 0)

Shr16(a) == U32(0, a.hi)

Low16(a) == U32(0, a.lo)

Zero32 == U32(0, 0)

RECURSIVE SumSeq(_)
SumSeq(s) == IF s = <<>> THEN 0 ELSE s[1] + SumSeq(Tail(s))

(* --------------------------- weak checksum ---------------------------- *)
\* the sum of f[lo..hi] as a uint32_t, the range halved at each level
RECURSIVE Sum32(_, _, _)
Sum32(f, lo, hi) ==
  IF lo > hi THEN Zero32
  ELSE IF lo = hi THEN AddInt32(Zero32, f[lo])
  ELSE LET mid == (lo + hi) \div 2
       IN  Add32(Sum32(f, lo, mid), Sum32(f, mid + 1, hi))

\* _hs_calc_weak_sum(buf, len): s1 the sum of the bytes, each plus
\* CHAR_OFFSET, s2 the sum of the running values of s1, so that the i-th of
\* len bytes counts len - i + 1 times; the result (s1 & 0xffff) + (s2 << 16)
hs_calc_weak_sum(s) ==
  LET n == Len(s)
      t1 == [i \in 1..n |-> s[i] + CHAR_OFFSET]
      t2 == [i \in 1..n |-> (n - i + 1) * (s[i] + CHAR_OFFSET)]
  IN  Add32(Low16(Sum32(t1, 1, n)), Shl16(Sum32(t2, 1, n)))

\* _hs_calc_strong_sum(buf, len): a collision-free digest, the block itself
hs_calc_strong_sum(s) == s

(* ------------------------------ state --------------------------------- *)
VARIABLES
  pc,                 \* position in hs_encode
  O,                  \* the old file, whose signature sigread_fn delivers
  N,                  \* the new file, which read_fn delivers
  rpos,               \* bytes of N that read_fn has delivered
  rs_remote_version,  \* the magic _hs_check_sig_version read, "unread" if short
  block_len,
  new_block_len,
  sums,               \* the signature index, a sequence of [sum1, strong_sum]
  inbuf,              \* [buf, amount, cursor, abspos, len]
  rollsum,            \* [havesum, weak_sum, s1, s2]
  at_eof,
  ret,                \* hs_encode's ret; at pc = "done" the value returned
  sig_tmpbuf,
  lit_tmpbuf,
  out,                \* what write_fn has written to the sink, in order
  stats,
  mem,                \* state of each resource: sums, inbuf, sig_tmpbuf, lit_tmpbuf
  probe,              \* the last lookup: position, length, weak sum, token
  sig_pos,            \* absolute offsets _hs_output_block_hash was called at
  overread,           \* _hs_calc_strong_sum was handed bytes at or past amount
  old_block_len,      \* the block length the old signature's header carries
  io_failed,          \* read_fn or write_fn has reported a failure
  run,                \* which call of hs_encode this is, 1 or 2
  first_sig           \* what the first call's new signature held, once it is over

vars == <<pc, O, N, rpos, rs_remote_version, block_len, new_block_len, sums,
          inbuf, rollsum, at_eof, ret, sig_tmpbuf, lit_tmpbuf, out, stats, mem,
          probe, sig_pos, overread, old_block_len, io_failed, run, first_sig>>

\* the variables no step of the scan changes
fixed == <<O, N, rs_remote_version, block_len, new_block_len, old_block_len,
           run, first_sig>>

ZeroStats ==
  [lit_cmds |-> 0, lit_bytes |-> 0, sig_cmds |-> 0, sig_bytes |-> 0,
   copy_cmds |-> 0, copy_bytes |-> 0]

NoProbe ==
  [pos |-> 0, len |-> 0, left |-> 0, weak |-> Zero32, token |-> 0, eof |-> FALSE]

\* no call of hs_encode has ended yet
NoSig == [entries |-> <<>>, overread |-> FALSE]

\* a command as it reaches the sink
Cmd(op, data, offset, length) ==
  [op |-> op, data |-> data, offset |-> offset, length |-> length]

\* an item of a membuf: its kind, its width in bytes, its value (a sequence
\* of numbers: a byte, a length, the two halves of a weak sum, a strong sum)
Item(kind, n, v) == [kind |-> kind, n |-> n, v |-> v]

WeakItem(w) == Item("weak", NETLONG, <<w.hi, w.lo>>)

StrongItem(d) == Item("strong", SUM_LENGTH, d)

MembufBytes(buf) == SumSeq([i \in 1..Len(buf) |-> buf[i].n])

\* hs_encode is entered: nothing is read, written or allocated yet
Entry ==
  /\ pc = "check_sig_version"
  /\ rpos = 0
  /\ rs_remote_version = "unread"
  /\ block_len = 0
  /\ new_block_len = 0
  /\ sums = <<>>
  /\ inbuf = [buf |-> <<>>, amount |-> 0, cursor |-> 0, abspos |-> 0, len |-> 0]
  /\ rollsum = [havesum |-> 0, weak_sum |-> Zero32, s1 |-> Zero32, s2 |-> Zero32]
  /\ at_eof = FALSE
  /\ ret = 0
  /\ sig_tmpbuf = <<>>
  /\ lit_tmpbuf = <<>>
  /\ out = <<>>
  /\ stats = ZeroStats
  /\ mem = [sums |-> "null", inbuf |-> "uninit", sig_tmpbuf |-> "uninit",
            lit_tmpbuf |-> "uninit"]
  /\ probe = NoProbe
  /\ sig_pos = <<>>
  /\ overread = FALSE
  /\ io_failed = FALSE

\* one call of hs_encode, on a new file and the signature of an old file cut
\* into blocks of a length of 1 or more
Init ==
  /\ O \in SeqsUpTo(Bytes, MaxOldLen)
  /\ N \in SeqsUpTo(Bytes, MaxNewLen)
  /\ old_block_len \in 1..MaxBlockLen
  /\ run = 1
  /\ first_sig = NoSig
  /\ Entry

(* ------------------------ signature header ---------------------------- *)
\* what _hs_read_netlong can return: an error, a short count, the full width
NetlongResults == -1..NETLONG

\* the magic read is not compared
hs_check_sig_version_unchecked(r, v) == r

\* _hs_check_sig_version: r is _hs_read_netlong's result, v the magic read
hs_check_sig_version(r, v) ==
  IF r # NETLONG THEN r
  ELSE IF v # HS_SIG_MAGIC THEN -1
  ELSE r

\* _hs_read_blocksize: r is _hs_read_netlong's result
hs_read_blocksize(r) ==
  IF r < 0 THEN -1
  ELSE IF r # NETLONG THEN -1
  ELSE 0

\* hs_encode, lines 284-286
CheckSigVersion ==
  /\ pc = "check_sig_version"
  /\ \E r \in NetlongResults, v \in {HS_SIG_MAGIC, OTHER_MAGIC} :
       /\ (r # NETLONG) => v = HS_SIG_MAGIC
       /\ rs_remote_version' = IF r = NETLONG THEN v ELSE "unread"
       /\ ret' = hs_check_sig_version(r, v)
       /\ pc' = IF ret' < 0 THEN "done" ELSE "read_blocksize"
  /\ UNCHANGED <<O, N, rpos, block_len, new_block_len, sums, inbuf, rollsum,
                 at_eof, sig_tmpbuf, lit_tmpbuf, out, stats, mem, probe,
                 sig_pos, overread, old_block_len, io_failed, run, first_sig>>

\* hs_encode, lines 288-290
ReadBlocksize ==
  /\ pc = "read_blocksize"
  /\ \E r \in NetlongResults :
       IF hs_read_blocksize(r) < 0
       THEN /\ ret' = -1
            /\ pc' = "done"
            /\ UNCHANGED <<block_len, new_block_len>>
       ELSE /\ block_len' = old_block_len
            /\ new_block_len' = old_block_len
            /\ pc' = "make_sum_struct"
            /\ UNCHANGED ret
  /\ UNCHANGED <<O, N, rpos, rs_remote_version, sums, inbuf, rollsum, at_eof,
                 sig_tmpbuf, lit_tmpbuf, out, stats, mem, probe, sig_pos,
                 overread, old_block_len, io_failed, run, first_sig>>

(* ----------------------- signature index ------------------------------ *)
NumBlocks(f, b) == IF f = <<>> THEN 0 ELSE (Len(f) + b - 1) \div b

\* block j (1-based) of file f cut into blocks of b bytes, the last one short
BlockOf(f, b, j) == Slice(f, (j - 1) * b, MIN(b, Len(f) - (j - 1) * b))

\* the signature of file f: one [sum1, strong_sum] per block
SignatureOf(f, b) ==
  [j \in 1..NumBlocks(f, b) |->
     [sum1 |-> hs_calc_weak_sum(BlockOf(f, b, j)),
      strong_sum |-> hs_calc_strong_sum(BlockOf(f, b, j))]]

\* _hs_make_sum_struct: the index built from the old file's signature stream
hs_make_sum_struct(old, b) == SignatureOf(old, b)

\* _hs_find_in_hash: the 1-based tokens of the entries whose weak sum is the
\* rolling one and whose strong sum is that of the block at the cursor
hs_find_in_hash(rs, block, sigs) ==
  {j \in 1..Len(sigs) :
     /\ sigs[j].sum1 = rs.weak_sum
     /\ sigs[j].strong_sum = hs_calc_strong_sum(block)}

\* _hs_find_match: the tokens the lookup may return, {0} when none matches
hs_find_match(this_block_size, rs, ib, sigs) ==
  LET found == hs_find_in_hash(rs, Slice(ib.buf, ib.cursor, this_block_size), sigs)
  IN  IF found = {} THEN {0} ELSE found

(* --------------------------- the window ------------------------------- *)
\* capacity of the window _hs_alloc_inbuf allocates
InbufLen(b) == 2 * b

\* the capacities it may give: two blocks, which for a block length of 0 is a
\* window of no byte, or the one byte of a window never allocated empty
InbufLens(b) == IF b = 0 THEN {0, 1} ELSE {InbufLen(b)}

hs_alloc_inbuf(b) ==
  [buf |-> <<>>, amount |-> 0, cursor |-> 0, abspos |-> 0, len |-> InbufLen(b)]

\* what read_fn may return to _hs_fill_inbuf: an error, 0 at end of input,
\* else some of the bytes that remain, at most the room left
FillResults(ib, file, pos) ==
  {-1} \cup (IF pos = Len(file) \/ ib.len = ib.amount THEN {0}
             ELSE 1..MIN(ib.len - ib.amount, Len(file) - pos))

\* _hs_fill_inbuf, with r what read_fn returned
hs_fill_inbuf(ib, file, pos, r) ==
  IF r <= 0 THEN ib
  ELSE [ib EXCEPT !.buf = @ \o Slice(file, pos, r), !.amount = @ + r]

\* _hs_slide_inbuf: drop the bytes before the cursor
hs_slide_inbuf(ib) ==
  [ib EXCEPT !.buf = Slice(@, ib.cursor, ib.amount - ib.cursor),
             !.abspos = @ + ib.cursor,
             !.amount = @ - ib.cursor,
             !.cursor = 0]

\* buf[pos] (0-based)
BufAt(ib, pos) == ib.buf[pos + 1]

(* ------------------------ rolling checksum ---------------------------- *)
\* _hs_update_sums
hs_update_sums(ib, this_block_len, rs) ==
  IF rs.havesum = 0
  THEN LET w == hs_calc_weak_sum(Slice(ib.buf, ib.cursor, this_block_len))
       IN  [havesum |-> 1, weak_sum |-> w, s1 |-> Low16(w), s2 |-> Shr16(w)]
  ELSE LET pos == ib.cursor + this_block_len - 1
       IN  IF pos <= ib.amount
           THEN LET n1 == AddInt32(rs.s1, BufAt(ib, pos) + CHAR_OFFSET)
                    n2 == Add32(rs.s2, n1)
                IN  [rs EXCEPT !.s1 = n1, !.s2 = n2,
                               !.weak_sum = Add32(n1, Shl16(n2))]
           ELSE rs

\* _hs_roll_sums
hs_roll_sums(ib, rs, b) ==
  [rs EXCEPT !.s1 = AddInt32(@, 0 - (BufAt(ib, ib.cursor) + CHAR_OFFSET)),
             !.s2 = AddInt32(@, 0 - b * (BufAt(ib, ib.cursor) + CHAR_OFFSET))]

\* _hs_signature_ready
hs_signature_ready(ib, nbl) == (ib.abspos + ib.cursor) % nbl = 0

(* --------------------------- emitting --------------------------------- *)
\* the token stream's magic is not written
hs_littok_header_none(sink) == sink

\* _hs_littok_header: the token stream's magic
hs_littok_header(sink) ==
  Append(sink, Cmd("Magic", <<Item(HS_LT_MAGIC, NETLONG, <<>>)>>, 0, NETLONG))

\* the new signature's header is left out
hs_newsig_header_none(nbl, buf) == buf

\* _hs_newsig_header: the new signature's magic and block length
hs_newsig_header(nbl, buf) ==
  buf \o <<Item(HS_SIG_MAGIC, NETLONG, <<>>), Item("block_len", NETLONG, <<nbl>>)>>

\* _hs_flush_literal_buf writes one command holding the whole buffer; an empty
\* buffer writes nothing
FlushCmd(buf, kind) == Cmd(kind, buf, 0, MembufBytes(buf))

FlushStats(st, buf, kind) ==
  IF buf = <<>> THEN st
  ELSE IF kind = "Literal"
       THEN [st EXCEPT !.lit_cmds = @ + 1, !.lit_bytes = @ + MembufBytes(buf)]
       ELSE [st EXCEPT !.sig_cmds = @ + 1, !.sig_bytes = @ + MembufBytes(buf)]

hs_flush_literal_buf(sink, buf, kind) ==
  IF buf = <<>> THEN sink ELSE Append(sink, FlushCmd(buf, kind))

\* _hs_append_literal: one byte more in the literal buffer
hs_append_literal(buf, byte) == Append(buf, Item("byte", 1, <<byte>>))

\* the offset hs_encode hands to _hs_emit_copy, line 362
CopyOffset(token, b) == token * b

\* _hs_emit_copy
hs_emit_copy(sink, offset, length) == Append(sink, Cmd("Copy", <<>>, offset, length))

CopyStats(st, length) ==
  [st EXCEPT !.copy_cmds = @ + 1, !.copy_bytes = @ + length]

\* the Copy is written first, the pending literals after it
MatchWrites_copy_first(sink, buf, offset, length) ==
  hs_flush_literal_buf(hs_emit_copy(sink, offset, length), buf, "Literal")

\* what a match writes, lines 349-362: the pending literals, then the Copy
MatchWrites(sink, buf, offset, length) ==
  hs_emit_copy(hs_flush_literal_buf(sink, buf, "Literal"), offset, length)

\* _hs_emit_eof
hs_emit_eof(sink) == Append(sink, Cmd("End", <<>>, 0, 0))

\* the bytes _hs_calc_strong_sum is handed by _hs_output_block_hash: nbl bytes
\* from the cursor, those at or past amount being whatever the window holds (g)
StrongInput(ib, nbl, g) ==
  Slice(ib.buf, ib.cursor, MIN(nbl, ib.amount - ib.cursor)) \o g

\* how many of those bytes lie at or past amount
Overread(ib, nbl) ==
  IF ib.cursor + nbl > ib.amount THEN ib.cursor + nbl - ib.amount ELSE 0

\* _hs_output_block_hash
hs_output_block_hash(buf, ib, nbl, rs, g) ==
  buf \o <<WeakItem(rs.weak_sum),
           StrongItem(hs_calc_strong_sum(StrongInput(ib, nbl, g)))>>

(* ------------------------- before the scan ---------------------------- *)
\* hs_encode, lines 296-298
MakeSumStruct ==
  /\ pc = "make_sum_struct"
  /\ \E ok \in BOOLEAN :
       IF ok
       THEN /\ sums' = hs_make_sum_struct(O, block_len)
            /\ mem' = [mem EXCEPT !.sums = "live"]
            /\ ret' = 0
            /\ pc' = "littok_header"
       ELSE /\ ret' = -1
            /\ pc' = "out"
            /\ UNCHANGED <<sums, mem>>
  /\ UNCHANGED <<fixed, rpos, inbuf, rollsum, at_eof, sig_tmpbuf, lit_tmpbuf,
                 out, stats, probe, sig_pos, overread, io_failed>>

\* hs_encode, lines 300-301
LittokHeader ==
  /\ pc = "littok_header"
  /\ \E ok \in BOOLEAN :
       IF ok
       THEN /\ out' = hs_littok_header(out)
            /\ ret' = 0
            /\ pc' = "alloc"
            /\ UNCHANGED io_failed
       ELSE /\ ret' = -1
            /\ pc' = "out"
            /\ io_failed' = TRUE
            /\ UNCHANGED out
  /\ UNCHANGED <<fixed, rpos, sums, inbuf, rollsum, at_eof, sig_tmpbuf,
                 lit_tmpbuf, stats, mem, probe, sig_pos, overread>>

\* hs_encode, lines 303-313
AllocBuffers ==
  /\ pc = "alloc"
  /\ sig_tmpbuf' = hs_newsig_header(new_block_len, <<>>)
  /\ lit_tmpbuf' = <<>>
  /\ \E len \in InbufLens(block_len) :
       inbuf' = [hs_alloc_inbuf(block_len) EXCEPT !.len = len]
  /\ mem' = [mem EXCEPT !.sig_tmpbuf = "live", !.lit_tmpbuf = "live",
                        !.inbuf = "live"]
  /\ ret' = 0
  /\ rollsum' = [rollsum EXCEPT !.havesum = 0]
  /\ pc' = "fill"
  /\ UNCHANGED <<fixed, rpos, sums, at_eof, out, stats, probe, sig_pos,
                 overread, io_failed>>

(* ------------------------------ the scan ------------------------------ *)
\* hs_encode, lines 316-318
Fill ==
  /\ pc = "fill"
  /\ \E r \in FillResults(inbuf, N, rpos) :
       /\ ret' = r
       /\ at_eof' = (r = 0)
       /\ inbuf' = [hs_fill_inbuf(inbuf, N, rpos, r) EXCEPT !.cursor = 0]
       /\ rpos' = IF r > 0 THEN rpos + r ELSE rpos
       /\ io_failed' = (io_failed \/ r < 0)
  /\ pc' = "scan"
  /\ UNCHANGED <<fixed, sums, rollsum, sig_tmpbuf, lit_tmpbuf, out, stats, mem,
                 probe, sig_pos, overread>>

\* the loop goes on while a byte is left, at end of input or not
LoopGuard_any_byte(eof, ib, b) == ib.cursor < ib.amount

\* the inner loop's condition, lines 325-327
LoopGuard(eof, ib, b) ==
  IF eof THEN ib.cursor < ib.amount ELSE ib.cursor + b <= ib.amount

\* line 329
ThisBlockLen(ib, b) == MIN(b, ib.amount - ib.cursor)

\* the cursor after a match, line 366
AdvanceMatch(ib, this_block_len) == [ib EXCEPT !.cursor = @ + this_block_len]

\* the cursor is left where it is
AdvanceLiteral_stay(ib) == ib

\* the cursor after a literal byte, line 375
AdvanceLiteral(ib) == [ib EXCEPT !.cursor = @ + 1]

\* a literal byte is passed over without being appended
AppendAtCursor_dropped(buf, ib) == buf

\* the byte at the cursor joins the literals, lines 372-373
AppendAtCursor(buf, ib) == hs_append_literal(buf, BufAt(ib, ib.cursor))

\* the weak sum as updated at the head of the iteration, line 330
Updated == hs_update_sums(inbuf, ThisBlockLen(inbuf, block_len), rollsum)

\* what the window may hold at or past amount, where line 343 reads it
Garbage ==
  IF hs_signature_ready(inbuf, new_block_len)
  THEN [1..Overread(inbuf, new_block_len) -> Bytes]
  ELSE {<<>>}

\* the loop is at its head and its condition holds
InLoop == pc = "scan" /\ LoopGuard(at_eof, inbuf, block_len)

\* the division of line 191 is defined
DivisorOk == new_block_len # 0

\* lines 329-346: the sums, the new signature's entry, the lookup
ScanHead(g, token) ==
  /\ g \in Garbage
  /\ token \in hs_find_match(ThisBlockLen(inbuf, block_len), Updated, inbuf, sums)
  /\ IF hs_signature_ready(inbuf, new_block_len)
     THEN /\ sig_tmpbuf' = hs_output_block_hash(sig_tmpbuf, inbuf, new_block_len,
                                                Updated, g)
          /\ sig_pos' = Append(sig_pos, inbuf.abspos + inbuf.cursor)
          /\ overread' = (overread \/ Overread(inbuf, new_block_len) > 0)
     ELSE UNCHANGED <<sig_tmpbuf, sig_pos, overread>>
  /\ probe' = [pos |-> inbuf.abspos + inbuf.cursor,
               len |-> ThisBlockLen(inbuf, block_len),
               left |-> inbuf.amount - inbuf.cursor,
               weak |-> Updated.weak_sum, token |-> token, eof |-> at_eof]

\* one iteration that matches, lines 329-368
ScanMatch ==
  /\ InLoop
  /\ DivisorOk
  /\ \E g \in Garbage, token \in 1..Len(sums) :
    /\ ScanHead(g, token)
    /\ out' = MatchWrites(out, lit_tmpbuf, CopyOffset(token, block_len),
                          ThisBlockLen(inbuf, block_len))
    /\ stats' = CopyStats(FlushStats(stats, lit_tmpbuf, "Literal"),
                          ThisBlockLen(inbuf, block_len))
    /\ lit_tmpbuf' = <<>>
    /\ inbuf' = AdvanceMatch(inbuf, ThisBlockLen(inbuf, block_len))
    /\ rollsum' = [Updated EXCEPT !.havesum = 0]
    /\ ret' = 0
    /\ UNCHANGED <<pc, fixed, rpos, sums, at_eof, mem, io_failed>>

\* an iteration that matches and whose flush of the literals fails, line 351
ScanMatchFlushFails ==
  /\ InLoop
  /\ DivisorOk
  /\ \E g \in Garbage, token \in 1..Len(sums) :
    /\ ScanHead(g, token)
    /\ lit_tmpbuf # <<>>
    /\ rollsum' = Updated
    /\ ret' = -1
    /\ pc' = "done"
    /\ io_failed' = TRUE
    /\ UNCHANGED <<fixed, rpos, sums, inbuf, at_eof, lit_tmpbuf, out, stats, mem>>

\* an iteration that matches and whose _hs_emit_copy fails, line 364
ScanMatchCopyFails ==
  /\ InLoop
  /\ DivisorOk
  /\ \E g \in Garbage, token \in 1..Len(sums) :
    /\ ScanHead(g, token)
    /\ out' = hs_flush_literal_buf(out, lit_tmpbuf, "Literal")
    /\ stats' = FlushStats(stats, lit_tmpbuf, "Literal")
    /\ lit_tmpbuf' = <<>>
    /\ rollsum' = Updated
    /\ ret' = -1
    /\ pc' = "done"
    /\ io_failed' = TRUE
    /\ UNCHANGED <<fixed, rpos, sums, inbuf, at_eof, mem>>

\* one iteration that does not match, lines 329-346 and 369-376
ScanLiteral ==
  /\ InLoop
  /\ DivisorOk
  /\ \E g \in Garbage :
    /\ ScanHead(g, 0)
    /\ lit_tmpbuf' = AppendAtCursor(lit_tmpbuf, inbuf)
    /\ rollsum' = hs_roll_sums(inbuf, Updated, block_len)
    /\ inbuf' = AdvanceLiteral(inbuf)
    /\ ret' = 0
    /\ UNCHANGED <<pc, fixed, rpos, sums, at_eof, out, stats, mem, io_failed>>

\* the inner loop ends, lines 379-381
Slide ==
  /\ pc = "scan"
  /\ ~LoopGuard(at_eof, inbuf, block_len)
  /\ inbuf' = hs_slide_inbuf(inbuf)
  /\ pc' = IF at_eof THEN "flush_literal" ELSE "fill"
  /\ UNCHANGED <<fixed, rpos, sums, rollsum, at_eof, ret, sig_tmpbuf, lit_tmpbuf,
                 out, stats, mem, probe, sig_pos, overread, io_failed>>

(* --------------------------- after the scan --------------------------- *)
\* hs_encode, lines 384-387
FlushLiteral ==
  /\ pc = "flush_literal"
  /\ \E ok \in BOOLEAN :
       IF ok
       THEN /\ out' = hs_flush_literal_buf(out, lit_tmpbuf, "Literal")
            /\ stats' = FlushStats(stats, lit_tmpbuf, "Literal")
            /\ lit_tmpbuf' = <<>>
            /\ ret' = 0
            /\ pc' = "flush_signature"
            /\ UNCHANGED io_failed
       ELSE /\ lit_tmpbuf # <<>>
            /\ ret' = -1
            /\ pc' = "out"
            /\ io_failed' = TRUE
            /\ UNCHANGED <<out, stats, lit_tmpbuf>>
  /\ UNCHANGED <<fixed, rpos, sums, inbuf, rollsum, at_eof, sig_tmpbuf, mem,
                 probe, sig_pos, overread>>

\* hs_encode, lines 389-391
FlushSignature ==
  /\ pc = "flush_signature"
  /\ \E ok \in BOOLEAN :
       IF ok
       THEN /\ out' = hs_flush_literal_buf(out, sig_tmpbuf, "Signature")
            /\ stats' = FlushStats(stats, sig_tmpbuf, "Signature")
            /\ sig_tmpbuf' = <<>>
            /\ pc' = "emit_eof"
            /\ UNCHANGED <<ret, io_failed>>
       ELSE /\ sig_tmpbuf # <<>>
            /\ ret' = -1
            /\ pc' = "done"
            /\ io_failed' = TRUE
            /\ UNCHANGED <<out, stats, sig_tmpbuf>>
  /\ UNCHANGED <<fixed, rpos, sums, inbuf, rollsum, at_eof, lit_tmpbuf, mem,
                 probe, sig_pos, overread>>

\* hs_encode, lines 394-405
EmitEof ==
  /\ pc = "emit_eof"
  /\ \E ok \in BOOLEAN :
       IF ok
       THEN /\ out' = hs_emit_eof(out)
            /\ ret' = 1
            /\ UNCHANGED io_failed
       ELSE /\ ret' = -1
            /\ io_failed' = TRUE
            /\ UNCHANGED out
  /\ pc' = "out"
  /\ UNCHANGED <<fixed, rpos, sums, inbuf, rollsum, at_eof, sig_tmpbuf,
                 lit_tmpbuf, stats, mem, probe, sig_pos, overread>>

\* what the test of inbuf->buf at line 410 leads to: a window this call
\* allocated is freed; a pointer never set is null by chance or is freed wild
CleanupInbuf(m) ==
  IF m = "live" THEN {"freed"}
  ELSE IF m = "uninit" THEN {"uninit", "wild"}
  ELSE {m}

\* hs_encode, lines 407-413
Cleanup ==
  /\ pc = "out"
  /\ \E m \in CleanupInbuf(mem.inbuf) :
       mem' = [mem EXCEPT !.sums = IF @ = "live" THEN "freed" ELSE @,
                          !.inbuf = m]
  /\ pc' = "done"
  /\ UNCHANGED <<fixed, rpos, sums, inbuf, rollsum, at_eof, ret, sig_tmpbuf,
                 lit_tmpbuf, out, stats, probe, sig_pos, overread, io_failed>>

Next ==
  \/ CheckSigVersion
  \/ ReadBlocksize
  \/ MakeSumStruct
  \/ LittokHeader
  \/ AllocBuffers
  \/ Fill
  \/ ScanMatch
  \/ ScanMatchFlushFails
  \/ ScanMatchCopyFails
  \/ ScanLiteral
  \/ Slide
  \/ FlushLiteral
  \/ FlushSignature
  \/ EmitEof
  \/ Cleanup

Spec == Init /\ [][Next]_vars

(* ======================= properties of hs_encode ====================== *)
\* hs_encode has returned 1
Succeeded == pc = "done" /\ ret = 1

\* the old signature's magic was read in full and is the one understood
HeaderValid == rs_remote_version = HS_SIG_MAGIC

\* what the decoder rebuilds from the commands: a Literal is its bytes, a
\* Copy(offset, length) is old[offset, offset+length), -1 standing for a byte
\* the old file does not have
RECURSIVE Decode(_, _)
Decode(cmds, old) ==
  IF cmds = <<>> THEN <<>>
  ELSE LET c == Head(cmds)
           piece == IF c.op = "Literal"
                    THEN [i \in 1..Len(c.data) |-> c.data[i].v[1]]
                    ELSE IF c.op = "Copy"
                    THEN [i \in 1..c.length |->
                            IF c.offset + i <= Len(old) THEN old[c.offset + i]
                            ELSE -1]
                    ELSE <<>>
       IN  piece \o Decode(Tail(cmds), old)

\* the bytes the commands of kind op carry or name
RECURSIVE BytesOf(_, _)
BytesOf(cmds, op) ==
  IF cmds = <<>> THEN 0
  ELSE (IF Head(cmds).op = op THEN Head(cmds).length ELSE 0)
       + BytesOf(Tail(cmds), op)

\* C1 (round trip): after a successful encode of N against the signature of
\* O, replaying the Literal and Copy commands against O rebuilds exactly N.
C1_RoundTrip == (Succeeded /\ HeaderValid) => Decode(out, O) = N

\* C2 (copy addressing): the Copy command written for a lookup that returned
\* token t > 0 has offset (t-1)*block_len and length this_block_len.
C2_CopyAddressing ==
  (pc = "scan" /\ HeaderValid /\ probe.token > 0 /\ out # <<>>
     /\ Last(out).op = "Copy")
    => /\ Last(out).offset = (probe.token - 1) * block_len
       /\ Last(out).length = probe.len

\* the bytes a literal buffer holds
Payload(buf) == [i \in 1..Len(buf) |-> buf[i].v[1]]

\* the commands, taken in order from offset pos of N, give each byte of N to
\* one command: a Literal holds the bytes of N at its place, a Copy stands for
\* the next length bytes, and the pending literals are the bytes that follow
RECURSIVE InPlace(_, _)
InPlace(cmds, pos) ==
  IF cmds = <<>> THEN Payload(lit_tmpbuf) = Slice(N, pos, Len(lit_tmpbuf))
  ELSE LET c == Head(cmds)
       IN  IF c.op = "Literal"
           THEN /\ Payload(c.data) = Slice(N, pos, c.length)
                /\ InPlace(Tail(cmds), pos + c.length)
           ELSE IF c.op = "Copy" THEN InPlace(Tail(cmds), pos + c.length)
           ELSE InPlace(Tail(cmds), pos)

\* C3 (byte accounting): the stats count what was written; while scanning,
\* the literal bytes written or pending plus the bytes the Copy commands cover
\* are exactly the bytes of N consumed so far, each byte in one command; and
\* after a successful encode literal_bytes + copy_bytes = len(N).
C3_ByteAccounting ==
  /\ stats.lit_bytes = BytesOf(out, "Literal")
  /\ stats.copy_bytes = BytesOf(out, "Copy")
  /\ pc \in {"fill", "scan"}
       => stats.lit_bytes + Len(lit_tmpbuf) + stats.copy_bytes
            = inbuf.abspos + inbuf.cursor
  /\ InPlace(out, 0)
  /\ Succeeded => stats.lit_bytes + stats.copy_bytes = Len(N)

\* C3 witness: a successful encode that wrote literal bytes and copies
C3_Witness ==
  /\ Succeeded
  /\ stats.lit_bytes > 0
  /\ stats.copy_bytes > 0
  /\ Len(N) >= 3

\* the items of the Signature command written, <<>> when none was
SignatureData ==
  LET idx == {i \in 1..Len(out) : out[i].op = "Signature"}
  IN  IF idx = {} THEN <<>> ELSE out[CHOOSE i \in idx : TRUE].data

\* the entries of the new signature: the items after its two header items,
\* taken in pairs
SignatureEntries ==
  [j \in 1..((Len(SignatureData) - 2) \div 2) |->
     [sum1 |-> SignatureData[2 * j + 1], strong_sum |-> SignatureData[2 * j + 2]]]

\* the entry a signature of file f holds for its block j
EntryOf(f, b, j) ==
  [sum1 |-> WeakItem(hs_calc_weak_sum(BlockOf(f, b, j))),
   strong_sum |-> StrongItem(hs_calc_strong_sum(BlockOf(f, b, j)))]

\* C4 (new-signature coverage): a successful encode emits one signature
\* entry for each block-aligned offset j*b < len(N), in increasing order,
\* ceil(len(N)/b) entries in all, whichever positions matched.
C4_SignatureCoverage ==
  (Succeeded /\ HeaderValid)
    => /\ sig_pos = [j \in 1..NumBlocks(N, block_len) |-> (j - 1) * block_len]
       /\ Len(SignatureEntries) = NumBlocks(N, block_len)

\* C5 (short final block signature): when len(N) = k*b + r with 0 < r < b,
\* the entry emitted for the final block holds the weak and the strong sum of
\* exactly the bytes N[k*b, k*b+r), and no byte at or past amount was read.
C5_ShortFinalSignature ==
  (/\ Succeeded
   /\ HeaderValid
   /\ Len(N) % block_len # 0
   /\ sig_pos # <<>>
   /\ Last(sig_pos) = (NumBlocks(N, block_len) - 1) * block_len)
    => /\ ~overread
       /\ Last(SignatureEntries) = EntryOf(N, block_len, NumBlocks(N, block_len))

\* C6 (short final block matching): at end of input, when the bytes left at
\* the cursor, fewer than block_len, are those of an old block of that
\* length, the weak sum handed to the lookup is the sum of exactly those
\* bytes and the lookup matches, after a match or after literal steps alike.
C6_ShortFinalMatch ==
  (/\ HeaderValid
   /\ probe.eof
   /\ probe.len > 0
   /\ probe.len < block_len
   /\ \E j \in 1..NumBlocks(O, block_len) :
        BlockOf(O, block_len, j) = Slice(N, probe.pos, probe.len))
    => /\ probe.weak = hs_calc_weak_sum(Slice(N, probe.pos, probe.len))
       /\ probe.token > 0

\* C7 (empty input), as claimed: with a valid old signature header and an
\* empty N, only the token stream's magic and End are written, and every
\* counter of the stats is zero.
C7_EmptyInput ==
  (Succeeded /\ HeaderValid /\ N = <<>>)
    => /\ out = hs_emit_eof(hs_littok_header(<<>>))
       /\ stats = ZeroStats

\* C7 (empty input), as the code has it: between the magic and End the new
\* signature's header (magic and block length, 8 bytes) is written as one
\* Signature command; no Literal or Copy is written; the literal and copy
\* counters are zero, sig_cmds is 1 and sig_bytes is 8.
C7_EmptyInputAmended ==
  (Succeeded /\ HeaderValid /\ N = <<>>)
    => /\ out = hs_emit_eof(
                  Append(hs_littok_header(<<>>),
                         Cmd("Signature",
                             <<Item(HS_SIG_MAGIC, NETLONG, <<>>),
                               Item("block_len", NETLONG, <<block_len>>)>>,
                             0, 2 * NETLONG)))
       /\ stats = [ZeroStats EXCEPT !.sig_cmds = 1, !.sig_bytes = 2 * NETLONG]

\* C7 witness: a successful encode of an empty N under a valid header
C7_Witness == Succeeded /\ HeaderValid /\ N = <<>> /\ Len(out) = 3

\* C9 (version mismatch): once the magic was read in full and is not the one
\* understood, hs_encode has returned a failure, nothing was written to the
\* sink, no index was built and nothing was read from the new file.
C9_VersionMismatch ==
  rs_remote_version = OTHER_MAGIC
    => /\ pc = "done"
       /\ ret < 0
       /\ out = <<>>
       /\ mem.sums = "null"
       /\ rpos = 0

\* C9 witness: hs_encode has returned after reading a foreign magic
C9_Witness == rs_remote_version = OTHER_MAGIC /\ pc = "done"

\* C10 (truncated signature header): once a read of the magic or of the
\* block length has delivered fewer than 4 bytes, hs_encode has returned a
\* failure, with no index built and nothing written.
C10_TruncatedHeader ==
  (pc # "check_sig_version" /\ rs_remote_version = "unread")
    => /\ pc = "done"
       /\ ret < 0
       /\ out = <<>>
       /\ mem.sums = "null"

(* ================= the rolling checksum on its own ==================== *)
\* A window holding the whole input: the sum is computed afresh at position
\* 0, then rolled one byte at a time while a full block lies at the cursor,
\* by the calls hs_encode makes on a step that does not match.

\* an input one byte longer than LongBlock: x, LongBlock - 1 bytes 255, y
LongInput(x, y) == <<x>> \o [i \in 1..(LongBlock - 1) |-> 255] \o <<y>>

\* the inputs and block lengths: every short input with every block length it
\* has a full block of, and the long inputs with the long block length
RollCases ==
  {c \in SeqsUpTo(Bytes, MaxNewLen) \X (1..MaxBlockLen) : Len(c[1]) >= c[2]}
    \cup {<<LongInput(x, y), LongBlock>> : x \in Bytes, y \in Bytes}

InitRoll ==
  /\ pc = "roll_start"
  /\ \E c \in RollCases :
       /\ N = c[1]
       /\ block_len = c[2]
       /\ new_block_len = c[2]
       /\ inbuf = [buf |-> c[1], amount |-> Len(c[1]), cursor |-> 0,
                   abspos |-> 0, len |-> Len(c[1])]
  /\ O = <<>>
  /\ rpos = Len(N)
  /\ rs_remote_version = HS_SIG_MAGIC
  /\ sums = <<>>
  /\ rollsum = [havesum |-> 0, weak_sum |-> Zero32, s1 |-> Zero32, s2 |-> Zero32]
  /\ at_eof = FALSE
  /\ ret = 0
  /\ sig_tmpbuf = <<>>
  /\ lit_tmpbuf = <<>>
  /\ out = <<>>
  /\ stats = ZeroStats
  /\ mem = [sums |-> "null", inbuf |-> "live", sig_tmpbuf |-> "uninit",
            lit_tmpbuf |-> "uninit"]
  /\ probe = NoProbe
  /\ sig_pos = <<>>
  /\ overread = FALSE
  /\ old_block_len = block_len
  /\ io_failed = FALSE
  /\ run = 1
  /\ first_sig = NoSig

\* line 330 with havesum clear: the sum of the block at the cursor
RollRecompute ==
  /\ pc = "roll_start"
  /\ rollsum' = hs_update_sums(inbuf, block_len, rollsum)
  /\ pc' = "rolled"
  /\ UNCHANGED <<fixed, rpos, sums, inbuf, at_eof, ret, sig_tmpbuf, lit_tmpbuf,
                 out, stats, mem, probe, sig_pos, overread, io_failed>>

\* lines 374-375, then line 330 with havesum set: the byte at the cursor
\* rolls out, the cursor advances, the block's new last byte is added
RollStep ==
  /\ pc = "rolled"
  /\ inbuf.cursor + 1 + block_len <= inbuf.amount
  /\ inbuf' = AdvanceLiteral(inbuf)
  /\ rollsum' = hs_update_sums(AdvanceLiteral(inbuf), block_len,
                               hs_roll_sums(inbuf, rollsum, block_len))
  /\ UNCHANGED <<pc, fixed, rpos, sums, at_eof, ret, sig_tmpbuf, lit_tmpbuf,
                 out, stats, mem, probe, sig_pos, overread, io_failed>>

NextRoll ==
  \/ RollRecompute
  \/ RollStep

SpecRoll == InitRoll /\ [][NextRoll]_vars

\* C8 (checksum equivalence): the weak sum held after a recompute at
\* position 0 and i roll steps is the weak sum computed afresh over the block
\* [i, i+b) at the cursor.
C8_ChecksumEquivalence ==
  pc = "rolled"
    => rollsum.weak_sum
         = hs_calc_weak_sum(Slice(inbuf.buf, inbuf.cursor, block_len))

(* ============== failures, resources and order in hs_encode ============ *)
\* C11 (I/O failure aborts): once read_fn or write_fn has reported a failure,
\* hs_encode reads nothing more from the new file, writes nothing more to the
\* sink (End included) and is on its way out, returning a failure.
C11_IoFailureAborts ==
  [][(io_failed /\ HeaderValid)
       => /\ rpos' = rpos
          /\ out' = out
          /\ pc' \in {"out", "done"}
          /\ ret' < 0]_vars

\* the resources hs_encode acquires
Resources == {"sums", "inbuf", "sig_tmpbuf", "lit_tmpbuf"}

\* C12 (resource release on every exit): when hs_encode has returned, by
\* whichever path, no resource it acquired in the call is still held.
C12_ResourceRelease ==
  (pc = "done" /\ HeaderValid) => \A r \in Resources : mem[r] # "live"

\* the Copy commands written, in order
Copies == SelectSeq(out, LAMBDA c : c.op = "Copy")

\* the blocks of f, cut at length b, are pairwise distinct
DistinctBlocks(f, b) ==
  \A i, j \in 1..NumBlocks(f, b) : i # j => BlockOf(f, b, i) # BlockOf(f, b, j)

\* C13 (identical files): when N = O, len(N) = k*block_len and the blocks of
\* O are pairwise distinct, a successful encode writes exactly k Copy
\* commands, the i-th (from 0) naming block i of O, that is offset
\* i*block_len and length block_len; no literal byte; copy_bytes = len(N).
C13_IdenticalFiles ==
  (/\ Succeeded
   /\ HeaderValid
   /\ N = O
   /\ Len(N) % block_len = 0
   /\ DistinctBlocks(O, block_len))
    => /\ Len(Copies) = Len(N) \div block_len
       /\ \A i \in 1..Len(Copies) :
            /\ Copies[i].offset = (i - 1) * block_len
            /\ Copies[i].length = block_len
       /\ stats.lit_bytes = 0
       /\ BytesOf(out, "Literal") = 0
       /\ stats.copy_bytes = Len(N)

\* the kinds of the commands written, in order
Ops == [i \in 1..Len(out) |-> out[i].op]

\* C15 (output ordering): at every moment the magic is the first write and
\* no other, nothing follows End, and only End follows the Signature
\* command; a successful encode has written the magic, then Literal and Copy
\* commands in the order of the bytes of N, then one Signature command, then
\* End once, as the last write.
C15_OutputOrdering ==
  /\ \A i \in 1..Len(out) :
       /\ Ops[i] = "Magic" <=> i = 1
       /\ Ops[i] = "End" => i = Len(out)
       /\ Ops[i] = "Signature" => \A j \in (i + 1)..Len(out) : Ops[j] = "End"
  /\ Succeeded
       => /\ Len(out) >= 3
          /\ Ops[1] = "Magic"
          /\ \A i \in 2..(Len(out) - 2) : Ops[i] \in {"Literal", "Copy"}
          /\ Ops[Len(out) - 1] = "Signature"
          /\ Ops[Len(out)] = "End"
          /\ InPlace(out, 0)

\* C15 witness: a successful encode that wrote a Literal and a Copy command
C15_Witness ==
  /\ Succeeded
  /\ \E i, j \in 1..Len(out) : Ops[i] = "Literal" /\ Ops[j] = "Copy"

\* C16 (readahead policy): a lookup was made at a cursor only with a full
\* block in the window (cursor + block_len <= amount) or after a fill had
\* returned 0; the length handed to it was shorter than block_len only at
\* end of input, and then it was amount - cursor.
C16_ReadaheadPolicy ==
  probe # NoProbe
    => /\ probe.left >= block_len \/ probe.eof
       /\ probe.len = MIN(block_len, probe.left)
       /\ probe.len < block_len => (probe.eof /\ probe.len = probe.left)

\* C16 witness: a lookup on a short final block, at end of input
C16_Witness ==
  /\ probe.eof
  /\ probe.len >= 1
  /\ probe.len < block_len
  /\ probe.len = probe.left

\* the absolute offset of the next byte to process
AbsCursor(ib) == ib.abspos + ib.cursor

\* C17 (window invariant): in every state cursor <= amount <= len; in the
\* scan loop abspos + cursor is the number of bytes of N consumed, those
\* appended as literals plus those Copy commands cover; and no step of
\* hs_encode makes abspos + cursor smaller.
C17_WindowInvariant ==
  /\ [](/\ inbuf.cursor <= inbuf.amount
        /\ inbuf.amount <= inbuf.len
        /\ pc \in {"fill", "scan"}
             => AbsCursor(inbuf)
                  = stats.lit_bytes + Len(lit_tmpbuf) + stats.copy_bytes)
  /\ [][AbsCursor(inbuf') >= AbsCursor(inbuf)]_vars

\* C17 witness: in the loop, after a slide, a Copy and a literal byte
C17_Witness ==
  /\ pc = "scan"
  /\ inbuf.abspos > 0
  /\ inbuf.cursor > 0
  /\ stats.copy_bytes > 0
  /\ lit_tmpbuf # <<>>

\* C18 (literal flush precedes Copy): after a match the literal buffer is
\* empty and the Copy, of the length looked up, is the last command written;
\* the Literal and Copy commands, in the order written, follow the bytes of
\* N; and no Literal command is empty.
C18_FlushBeforeCopy ==
  /\ (pc \in {"fill", "scan"} /\ probe.token > 0)
       => /\ lit_tmpbuf = <<>>
          /\ Last(out).op = "Copy"
          /\ Last(out).length = probe.len
  /\ InPlace(out, 0)
  /\ \A i \in 1..Len(out) : Ops[i] = "Literal" => out[i].data # <<>>

\* C18 witness: a match that found literals pending, and one that found none
C18_Witness ==
  /\ pc = "scan"
  /\ probe.token > 0
  /\ \E i \in 2..(Len(out) - 1) :
       /\ Ops[i] = "Copy"
       /\ Ops[i - 1] \in {"Magic", "Copy"}
  /\ Ops[Len(out) - 1] = "Literal"

\* C20 (cleanup only touches acquired resources): whenever hs_encode stands
\* at the cleanup of lines 407-413, the window pointer it tests there was set
\* by the allocation of this call; and no pointer that was never set is freed.
C20_CleanupAcquired ==
  /\ (pc = "out" /\ HeaderValid) => mem.inbuf = "live"
  /\ mem.inbuf # "wild"

(* ================= any block length in the old header ================= *)
\* The old signature's header may carry any block length; 0 is the one
\* added here, and a signature of blocks of no byte has no entry.
InitAnyLen ==
  /\ old_block_len \in 0..MaxBlockLen
  /\ O \in IF old_block_len = 0 THEN {<<>>} ELSE SeqsUpTo(Bytes, MaxOldLen)
  /\ N \in SeqsUpTo(Bytes, MaxNewLen)
  /\ run = 1
  /\ first_sig = NoSig
  /\ Entry

\* lines 329-332 with new_block_len 0: abs_cursor % 0 at line 191 is
\* undefined; the division traps and hs_encode never returns, or the build
\* yields some value and what follows is not known
SignatureReadyTrap ==
  /\ InLoop
  /\ ~DivisorOk
  /\ rollsum' = Updated
  /\ pc' \in {"trap", "undefined"}
  /\ UNCHANGED <<fixed, rpos, sums, inbuf, at_eof, ret, sig_tmpbuf, lit_tmpbuf,
                 out, stats, mem, probe, sig_pos, overread, io_failed>>

NextAnyLen ==
  \/ Next
  \/ SignatureReadyTrap

\* hs_encode runs on: no step that can be taken is put off for ever
SpecAnyLen == InitAnyLen /\ [][NextAnyLen]_vars /\ WF_vars(NextAnyLen)

\* what the claim of termination leaves aside: a failure of read_fn or
\* write_fn, a header not read in full with the magic understood, a failure
\* of sigread_fn (hs_encode is leaving with no index built)
Excused ==
  \/ io_failed
  \/ pc # "check_sig_version" /\ ~HeaderValid
  \/ pc \in {"out", "done"} /\ ret < 0 /\ mem.sums = "null"

\* C19 (termination): with the header read in full, whatever block length
\* it carries, and no read or write failing, every iteration of the inner
\* loop has this_block_len >= 1, and hs_encode eventually returns 1 with End
\* the last command written. (A run whose division by zero yields a value
\* is not counted against the claim.)
C19_Termination ==
  /\ []((InLoop /\ ~Excused) => ThisBlockLen(inbuf, block_len) >= 1)
  /\ <>(\/ Excused
        \/ pc = "undefined"
        \/ Succeeded /\ out # <<>> /\ Last(out).op = "End")

(* ===================== two calls on the same new file ================= *)
\* hs_encode is called on N, and once it has returned 1 it is called again
\* on the same N with the same block length and the signature of another
\* old file.
Rerun ==
  /\ run = 1
  /\ Succeeded
  /\ HeaderValid
  /\ run' = 2
  /\ first_sig' = [entries |-> SignatureEntries, overread |-> overread]
  /\ O' \in SeqsUpTo(Bytes, MaxOldLen)
  /\ UNCHANGED <<N, old_block_len>>
  /\ pc' = "check_sig_version"
  /\ rpos' = 0
  /\ rs_remote_version' = "unread"
  /\ block_len' = 0
  /\ new_block_len' = 0
  /\ sums' = <<>>
  /\ inbuf' = [buf |-> <<>>, amount |-> 0, cursor |-> 0, abspos |-> 0, len |-> 0]
  /\ rollsum' = [havesum |-> 0, weak_sum |-> Zero32, s1 |-> Zero32, s2 |-> Zero32]
  /\ at_eof' = FALSE
  /\ ret' = 0
  /\ sig_tmpbuf' = <<>>
  /\ lit_tmpbuf' = <<>>
  /\ out' = <<>>
  /\ stats' = ZeroStats
  /\ mem' = [sums |-> "null", inbuf |-> "uninit", sig_tmpbuf |-> "uninit",
             lit_tmpbuf |-> "uninit"]
  /\ probe' = NoProbe
  /\ sig_pos' = <<>>
  /\ overread' = FALSE
  /\ io_failed' = FALSE

NextTwice ==
  \/ Next
  \/ Rerun

SpecTwice == Init /\ [][NextTwice]_vars

\* C14 (signature determinism): two successful calls on the same N with the
\* same block length write the same sequence of signature entries, whatever
\* the two old files are; neither call read past the bytes of the window.
C14_SignatureDeterminism ==
  (/\ run = 2
   /\ Succeeded
   /\ HeaderValid
   /\ ~overread
   /\ ~first_sig.overread)
    => SignatureEntries = first_sig.entries

====
